---- MODULE Spec2Model ----
(***************************************************************************)
(* A model of server/routes.ts: the payment-stage lifecycle, the budget    *)
(* negotiation workflow and the notification records they create.          *)
(*                                                                         *)
(* Tables are sequences of rows; a row's id is its index (serial ids).     *)
(* A nullable column holds None (<<>>) or Some(v) (<<v>>).                 *)
(* A handler is an operator from the state and the request to its outcome: *)
(* the HTTP response (res), the emails it dispatched (mail) and the tables *)
(* it wrote.  The handler's action installs the tables of that outcome; a  *)
(* request that is refused writes nothing and so leaves the state as it is.*)
(* String literals drop the accents and the emoji of the source's.         *)
(***************************************************************************)
EXTENDS Integers, Sequences, FiniteSets, TLC

VARIABLES
    users,          \* set of ids of the rows of the users table
    projects,       \* projects table
    stages,         \* payment_stages table
    timeline,       \* project_timeline table
    negotiations,   \* budget_negotiations table
    notifications,  \* notifications table
    now,            \* the wall clock (Date.now()), strictly increasing between requests
    calls,          \* the requests that are followed await by await, with their locals
    clients,        \* wss.clients: the connections of the real-time channel
    registry,       \* the connection registered for each user id
    companyBillingInfo,  \* company_billing_info table
    invoices,       \* invoices table
    transactions    \* transactions table

realtime == <<clients, registry>>
billing == <<companyBillingInfo, invoices, transactions>>

vars == <<users, projects, stages, timeline, negotiations, notifications, now, calls,
          clients, registry, companyBillingInfo, invoices, transactions>>

----------------------------------------------------------------------------
(* Bounds of the model *)

MaxProjects == 1
MaxStages == 2
MaxNegotiations == 2
MaxNow == 2
MaxNotifications == 6
MaxCalls == 2
MaxClients == 2
MaxCompanies == 2
MaxInvoices == 1
MaxTransactions == 2

----------------------------------------------------------------------------
(* Values *)

None == <<>>
Some(v) == <<v>>

AdminIds == {1, 2}
ClientIds == {3}
UserIds == AdminIds \cup ClientIds

Role(u) == IF u \in AdminIds THEN "admin" ELSE "client"
FullName(u) == IF u = 1 THEN "Ana Admin" ELSE IF u = 2 THEN "Beto Admin" ELSE "Carla Cliente"

Prices == {1000, 1200}

\* the request bodies of POST /api/projects/:id/payment-stages that are tried
StagePlans ==
    { << [name |-> "Anticipo", percentage |-> 50, requiredProgress |-> 0],
         [name |-> "Entrega",  percentage |-> 50, requiredProgress |-> 50] >>,
      << [name |-> "Final",    percentage |-> 30, requiredProgress |-> 100] >> }

PaymentMethods == {"transferencia"}
Reasons == {"comprobante ilegible", "monto incorrecto"}

StageStatuses == {"pending", "available", "pending_verification", "paid"}

----------------------------------------------------------------------------
(* JSON objects and row updates *)

\* { ...a, ...b }
Spread(a, b) ==
    [k \in (DOMAIN a) \cup (DOMAIN b) |-> IF k \in DOMAIN b THEN b[k] ELSE a[k]]

\* storage.update*(id, updates): the named columns of row id are overwritten
UpdateRow(table, id, updates) ==
    [table EXCEPT ![id] = Spread(@, updates)]

Exists(table, id) == id \in 1..Len(table)

----------------------------------------------------------------------------
(* Responses *)

\* res.status(code).json(...)
Reply(code) == [status |-> code, doc |-> None]

\* sendEmail and the send* helpers: ok is FALSE when the send throws
Email(to, kind, ok) == [to |-> to, kind |-> kind, ok |-> ok]

\* the fixed system mailbox (process.env.GMAIL_USER || 'softwarepar.lat@gmail.com')
SystemMailbox == 0

\* storage.createNotification({userId, title, message, type})
CreateNotification(table, userId, title, message, type) ==
    Append(table, [userId |-> userId, title |-> title, message |-> message, type |-> type])

----------------------------------------------------------------------------
(* Initial state: the seeded users, every other table empty *)

Init ==
    /\ users = UserIds
    /\ projects = <<>>
    /\ stages = <<>>
    /\ timeline = <<>>
    /\ negotiations = <<>>
    /\ notifications = <<>>
    /\ now = 1
    /\ calls = <<>>
    /\ clients = <<>>
    /\ registry = <<>>
    /\ companyBillingInfo = <<>>
    /\ invoices = <<>>
    /\ transactions = <<>>

----------------------------------------------------------------------------
(* Users *)

RECURSIVE Ascending(_)
\* the elements of a finite set of ids, in ascending order
Ascending(S) ==
    IF S = {} THEN <<>>
    ELSE LET m == CHOOSE x \in S : \A y \in S : x <= y
         IN <<m>> \o Ascending(S \ {m})

\* storage.getUsersByRole("admin"): the admin rows, in id order
AdminUsers(us) == Ascending(us \cap AdminIds)

\* storage.getUserById(id): is there such a row
UserExists(us, id) == id \in us

\* notifications.ts, step 1 of the fan-out: one notification row per target, in order
RECURSIVE FanOut(_, _, _, _, _)
FanOut(table, targets, title, message, type) ==
    IF targets = <<>> THEN table
    ELSE FanOut(CreateNotification(table, Head(targets), title, message, type),
                Tail(targets), title, message, type)

\* notifications.ts, step 3 of the fan-out: one email per target, in order
FanOutMail(targets, kind) == [i \in 1..Len(targets) |-> Email(targets[i], kind, TRUE)]

----------------------------------------------------------------------------
(* POST /api/projects *)

ProjectName == "Tienda Web"

\* projectData: the client is the requester, or body.clientId for an admin who gives one
NewProject(u, price, clientId) ==
    [ name |-> ProjectName,
      price |-> price,
      clientId |-> IF Role(u) = "admin" /\ clientId # None THEN clientId[1] ELSE u,
      status |-> "pending",
      progress |-> 0 ]

\* notifyProjectCreated(clientId, adminIds, name)
ProjectCreatedTargets(clientId, adminIds) == <<clientId>> \o adminIds

CreateProjectHandler(u, price, clientId) ==
    LET row == NewProject(u, price, clientId)
        targets == ProjectCreatedTargets(row.clientId, AdminUsers(users))
    IN [ res |-> Reply(201),
         mail |-> FanOutMail(targets, "project_created"),
         projects |-> Append(projects, row),
         notifications |-> FanOut(notifications, targets, "Proyecto Creado", <<row.name>>, "info") ]

CreateProject(u, price, clientId) ==
    LET out == CreateProjectHandler(u, price, clientId)
    IN /\ Len(out.projects) <= MaxProjects
       /\ projects' = out.projects
       /\ notifications' = out.notifications
       /\ UNCHANGED <<users, stages, timeline, negotiations, now, calls, realtime, billing>>

----------------------------------------------------------------------------
(* POST /api/projects/:id/payment-stages *)

\* an amount computed from the price the project was created with
StageAmountOfFirstPrice(price, percentage) == 1000 * percentage

\* project.price * stage.percentage / 100, held in hundredths of the currency unit
\* (price is a whole number of units, so price * percentage is that amount exactly)
StageAmount(price, percentage) == price * percentage

\* a status that ignores the threshold
InitialStatusAlwaysAvailable(requiredProgress) == "available"

\* stage.requiredProgress === 0 ? 'available' : 'pending'
InitialStatus(requiredProgress) == IF requiredProgress = 0 THEN "available" ELSE "pending"

\* stageData, with the columns createPaymentStage leaves at their defaults
NewStage(projectId, price, s) ==
    [ projectId |-> projectId,
      stageName |-> s.name,
      stagePercentage |-> s.percentage,
      amount |-> StageAmount(price, s.percentage),
      requiredProgress |-> s.requiredProgress,
      status |-> InitialStatus(s.requiredProgress),
      paymentMethod |-> None,
      proofFileUrl |-> None,
      paymentData |-> None,
      paidAt |-> None,
      approvedBy |-> None,
      approvedAt |-> None ]

\* createdStages: one row per entry of the body, in order
CreatedStages(projectId, price, plan) ==
    [i \in 1..Len(plan) |-> NewStage(projectId, price, plan[i])]

\* availableStages: the created rows whose status is available, in order
AvailableStages(created) == SelectSeq(created, LAMBDA s : s.status = "available")

\* the "payment available" emails: one per available stage, when the client row is
\* found; a send that throws is caught and logged
StageAvailableMail(client, clientFound, available, smtpDown) ==
    IF clientFound
    THEN [i \in 1..Len(available) |-> Email(client, "payment_available", ~smtpDown)]
    ELSE <<>>

TimelineTitles ==
    << "Analisis y Planificacion", "Diseno y Arquitectura", "Desarrollo - Fase 1",
       "Desarrollo - Fase 2", "Testing y QA", "Entrega Final" >>

\* storage.hasProjectTimeline(projectId)
HasProjectTimeline(table, projectId) ==
    \E i \in 1..Len(table) : table[i].projectId = projectId

\* the six timelineItems, created in order
SeedTimeline(table, projectId) ==
    table \o [i \in 1..Len(TimelineTitles) |->
                [projectId |-> projectId, title |-> TimelineTitles[i], status |-> "pending"]]

CreatePaymentStagesHandler(projectId, plan, smtpDown) ==
    IF ~Exists(projects, projectId)
    THEN [res |-> Reply(404), mail |-> <<>>, stages |-> stages, timeline |-> timeline]
    ELSE LET project == projects[projectId]
             created == CreatedStages(projectId, project.price, plan)
         IN [ res |-> Reply(200),
              mail |-> StageAvailableMail(project.clientId, UserExists(users, project.clientId),
                                          AvailableStages(created), smtpDown),
              stages |-> stages \o created,
              timeline |-> IF HasProjectTimeline(timeline, projectId)
                           THEN timeline
                           ELSE SeedTimeline(timeline, projectId) ]

CreatePaymentStages(projectId, plan, smtpDown) ==
    LET out == CreatePaymentStagesHandler(projectId, plan, smtpDown)
    IN /\ Len(out.stages) <= MaxStages
       /\ stages' = out.stages
       /\ timeline' = out.timeline
       /\ UNCHANGED <<users, projects, negotiations, notifications, now, calls, realtime, billing>>

----------------------------------------------------------------------------
(* The outcome of a handler of a payment stage *)

\* an early return: nothing written, no email
Refused(code) ==
    [ res |-> Reply(code), mail |-> <<>>,
      stages |-> stages, notifications |-> notifications, now |-> now ]

\* the action of such a handler; the clock is capped at MaxNow readings
Install(out) ==
    /\ out.now <= MaxNow + 1
    /\ stages' = out.stages
    /\ notifications' = out.notifications
    /\ now' = out.now
    /\ UNCHANGED <<users, projects, timeline, negotiations, calls, realtime, billing>>

\* storage.getProject(stage[0].projectId) finds no row
ProjectMissing(stage) == ~Exists(projects, stage.projectId)

\* a lookup that takes every client for found
ClientNeverMissing(stage) == FALSE

\* storage.getUserById(project.clientId) finds no row
ClientMissing(stage) == ~UserExists(users, projects[stage.projectId].clientId)

----------------------------------------------------------------------------
(* PATCH /api/payment-stages/:id *)

\* the request bodies that are tried: the handler passes req.body to the update as it is
PatchBodies == {[status |-> st] : st \in StageStatuses}

PatchPaymentStageHandler(stageId, updates) ==
    [ res |-> Reply(200), mail |-> <<>>,
      stages |-> IF Exists(stages, stageId) THEN UpdateRow(stages, stageId, updates) ELSE stages,
      notifications |-> notifications,
      now |-> now ]

PatchPaymentStage(stageId, updates) ==
    Install(PatchPaymentStageHandler(stageId, updates))

----------------------------------------------------------------------------
(* POST /api/payment-stages/:id/confirm-payment *)

\* req.file (multer) and body.proofFileInfo: the uploads that are tried
ProofFile == [originalname |-> "recibo.pdf", size |-> 2048, mimetype |-> "application/pdf"]
ProofFileInfo == [fileName |-> "foto.png", fileSize |-> 1024, fileType |-> <<"image", "png">>]
Uploads ==
    { [file |-> None, info |-> None],
      [file |-> Some(ProofFile), info |-> None],
      [file |-> None, info |-> Some(ProofFileInfo)] }

\* fileType?.split('/')[1] || 'jpg', fileType held as its parts between the slashes
FileExtension(fileType) == IF Len(fileType) >= 2 THEN fileType[2] ELSE "jpg"

\* a name synthesized for every submission, with or without an upload
ProofFileUrlAlways(stageId, t, up) ==
    Some(<<"comprobante_", stageId, "_", t, ".", "jpg">>)

\* proofFileUrl: a synthesized name, null when neither a file nor a descriptor came
ProofFileUrl(stageId, t, up) ==
    IF up.file # None
    THEN Some(<<"comprobante_", stageId, "_", t, "_", up.file[1].originalname>>)
    ELSE IF up.info # None
         THEN Some(<<"comprobante_", stageId, "_", t, ".", FileExtension(up.info[1].fileType)>>)
         ELSE None

\* paymentData of the submission
ConfirmPaymentData(u, t, method, up) ==
    LET base == [ confirmedBy |-> u,
                  confirmedAt |-> t,
                  method |-> method,
                  fileInfo |-> IF up.info # None THEN up.info
                               ELSE IF up.file # None
                                    THEN Some([ fileName |-> up.file[1].originalname,
                                                fileSize |-> up.file[1].size,
                                                fileType |-> up.file[1].mimetype ])
                                    ELSE None ]
    IN IF up.file # None
       THEN Spread(base, [originalFileName |-> up.file[1].originalname])
       ELSE base

\* the columns the handler writes
ConfirmPaymentUpdates(u, stageId, t, method, up) ==
    [ paymentMethod |-> Some(method),
      proofFileUrl |-> ProofFileUrl(stageId, t, up),
      status |-> "pending_verification",
      paymentData |-> Some(ConfirmPaymentData(u, t, method, up)) ]

\* the message of the admins' notification
ProofReceivedMessage(clientName, stageName, method, up) ==
    <<"El cliente ", clientName, " envio comprobante de pago para '", stageName,
      "' mediante ", method, ". ">>
    \o (IF up.file # None THEN <<"Comprobante adjunto: ", up.file[1].originalname>>
        ELSE <<"Sin comprobante adjunto">>)
    \o <<". Requiere verificacion.">>

\* only the first admin is notified
ProofReceivedFirstAdmin(us) ==
    IF AdminUsers(us) = <<>> THEN <<>> ELSE <<Head(AdminUsers(us))>>

\* the users the submission is notified to
ProofReceivedTargets(us) == AdminUsers(us)

\* what may throw after the stage is written: the first createNotification, the
\* email to the admin, the email to the client
ConfirmFaults == {"none", "notification", "admin_email", "client_email"}

\* the try block of the two emails: the first throw ends the block and is caught
ProofMail(client, fault) ==
    IF fault = "admin_email"
    THEN <<Email(SystemMailbox, "proof_received", FALSE)>>
    ELSE <<Email(SystemMailbox, "proof_received", TRUE),
           Email(client, "proof_confirmation", fault # "client_email")>>

\* the response after the emails' try block: a caught email error does not change it
ConfirmResponse(fault) == Reply(200)

ConfirmPaymentHandler(u, stageId, method, up, fault) ==
    IF ~Exists(stages, stageId) THEN Refused(404)
    ELSE IF ProjectMissing(stages[stageId]) THEN Refused(404)
    ELSE IF ClientMissing(stages[stageId]) THEN Refused(404)
    ELSE LET stage == stages[stageId]
             client == projects[stage.projectId].clientId
             targets == ProofReceivedTargets(users)
             written == UpdateRow(stages, stageId,
                                  ConfirmPaymentUpdates(u, stageId, now, method, up))
         IN IF fault = "notification" /\ targets # <<>>
            THEN \* createNotification throws: the outer catch answers 500
                 [ res |-> Reply(500), mail |-> <<>>,
                   stages |-> written, notifications |-> notifications, now |-> now + 1 ]
            ELSE [ res |-> ConfirmResponse(fault),
                   mail |-> ProofMail(client, fault),
                   stages |-> written,
                   notifications |->
                       FanOut(notifications, targets, "Comprobante de Pago Recibido",
                              ProofReceivedMessage(FullName(client), stage.stageName, method, up),
                              "warning"),
                   now |-> now + 1 ]

ConfirmPayment(u, stageId, method, up, fault) ==
    Install(ConfirmPaymentHandler(u, stageId, method, up, fault))

----------------------------------------------------------------------------
(* POST /api/payment-stages/:id/approve-payment *)

\* a guard that refuses only a stage that is already paid
NotPendingVerificationPaidOnly(stage) == stage.status = "paid"

\* stage[0].status !== 'pending_verification'
NotPendingVerification(stage) == stage.status # "pending_verification"

\* an update that leaves out who approved and when
ApprovePaymentUpdatesWithoutApprover(u, t) == [status |-> "paid", paidAt |-> Some(t)]

\* the columns the handler writes
ApprovePaymentUpdates(u, t) ==
    [ status |-> "paid",
      paidAt |-> Some(t),
      approvedBy |-> Some(u),
      approvedAt |-> Some(t) ]

ApprovedMessage(stageName) ==
    <<"Tu pago para la etapa '", stageName,
      "' ha sido verificado y aprobado. Continuamos con el desarrollo!">>

\* the approval is notified to the project's client
ApprovedNotification(table, project, stage) ==
    CreateNotification(table, project.clientId, "Pago Aprobado",
                       ApprovedMessage(stage.stageName), "success")

\* what may throw after the stage is written: createNotification
ReviewFaults == {"none", "notification"}

ApprovePaymentHandler(u, stageId, fault) ==
    IF Role(u) # "admin" THEN Refused(403)
    ELSE IF ~Exists(stages, stageId) THEN Refused(404)
    ELSE IF NotPendingVerification(stages[stageId]) THEN Refused(400)
    ELSE IF ProjectMissing(stages[stageId]) THEN Refused(404)
    ELSE IF ClientMissing(stages[stageId]) THEN Refused(404)
    ELSE LET stage == stages[stageId]
             project == projects[stage.projectId]
             written == UpdateRow(stages, stageId, ApprovePaymentUpdates(u, now))
         IN IF fault = "notification"
            THEN [ res |-> Reply(500), mail |-> <<>>,
                   stages |-> written, notifications |-> notifications, now |-> now + 1 ]
            ELSE [ res |-> Reply(200), mail |-> <<>>,
                   stages |-> written,
                   notifications |-> ApprovedNotification(notifications, project, stage),
                   now |-> now + 1 ]

ApprovePayment(u, stageId, fault) ==
    Install(ApprovePaymentHandler(u, stageId, fault))

----------------------------------------------------------------------------
(* POST /api/payment-stages/:id/reject-payment *)

\* { ...stage[0].paymentData, rejectedBy, rejectedAt, rejectionReason }
RejectPaymentData(prior, u, t, reason) ==
    LET rejection == [rejectedBy |-> u, rejectedAt |-> t, rejectionReason |-> reason]
    IN IF prior = None THEN rejection ELSE Spread(prior[1], rejection)

\* the columns the handler writes
RejectPaymentUpdates(prior, u, t, reason) ==
    [ status |-> "available",
      paymentMethod |-> None,
      proofFileUrl |-> None,
      paymentData |-> Some(RejectPaymentData(prior, u, t, reason)) ]

\* a message that leaves the reason out
RejectedMessageWithoutReason(stageName, reason) ==
    <<"Tu comprobante de pago para '", stageName, "' fue rechazado.",
      " Por favor, envia un nuevo comprobante.">>

RejectedMessage(stageName, reason) ==
    <<"Tu comprobante de pago para '", stageName, "' fue rechazado. Motivo: ", reason,
      ". Por favor, envia un nuevo comprobante.">>

\* the rejection is notified to the project's client
RejectedNotification(table, project, stage, reason) ==
    CreateNotification(table, project.clientId, "Pago Rechazado",
                       RejectedMessage(stage.stageName, reason), "error")

RejectPaymentHandler(u, stageId, reason, fault) ==
    IF Role(u) # "admin" THEN Refused(403)
    ELSE IF ~Exists(stages, stageId) THEN Refused(404)
    ELSE IF NotPendingVerification(stages[stageId]) THEN Refused(400)
    ELSE IF ProjectMissing(stages[stageId]) THEN Refused(404)
    ELSE LET stage == stages[stageId]
             project == projects[stage.projectId]
             written == UpdateRow(stages, stageId,
                                  RejectPaymentUpdates(stage.paymentData, u, now, reason))
         IN IF fault = "notification"
            THEN [ res |-> Reply(500), mail |-> <<>>,
                   stages |-> written, notifications |-> notifications, now |-> now + 1 ]
            ELSE [ res |-> Reply(200), mail |-> <<>>,
                   stages |-> written,
                   notifications |-> RejectedNotification(notifications, project, stage, reason),
                   now |-> now + 1 ]

RejectPayment(u, stageId, reason, fault) ==
    Install(RejectPaymentHandler(u, stageId, reason, fault))

----------------------------------------------------------------------------
(* GET /api/client/stage-invoices/:stageId/download and .../download-resimple *)

\* storage.getPaymentStages(projectId): the ids of the project's stages, in id order
PaymentStageIds(table, projectId) ==
    SelectSeq([i \in 1..Len(table) |-> i], LAMBDA i : table[i].projectId = projectId)

RECURSIVE InsertByProgress(_, _, _)
\* id placed after every id of sorted whose requiredProgress is not larger
InsertByProgress(table, sorted, id) ==
    IF sorted = <<>> THEN <<id>>
    ELSE IF table[Head(sorted)].requiredProgress <= table[id].requiredProgress
         THEN <<Head(sorted)>> \o InsertByProgress(table, Tail(sorted), id)
         ELSE <<id>> \o sorted

\* the stages left in the order the store returned them
SortByIdOrder(table, ids) == ids

RECURSIVE SortByProgress(_, _)
\* allStages.sort((a, b) => a.requiredProgress - b.requiredProgress), a stable sort
SortByProgress(table, ids) ==
    IF ids = <<>> THEN <<>>
    ELSE InsertByProgress(table, SortByProgress(table, SubSeq(ids, 1, Len(ids) - 1)), ids[Len(ids)])

\* sortedStages.findIndex(s => s.id === stage[0].id) + 1
StageNumber(table, stageId) ==
    LET sorted == SortByProgress(table, PaymentStageIds(table, table[stageId].projectId))
    IN CHOOSE k \in 1..Len(sorted) : sorted[k] = stageId

\* sortedStages.length
TotalStages(table, stageId) == Len(PaymentStageIds(table, table[stageId].projectId))

\* the data of the document: the numbering and the single line item
StageInvoice(table, stageId) ==
    [ projectId |-> table[stageId].projectId,
      stageNumber |-> StageNumber(table, stageId),
      totalStages |-> TotalStages(table, stageId),
      amount |-> table[stageId].amount ]

\* project.clientId !== req.user!.id
NotOwner(u, stage) == projects[stage.projectId].clientId # u

\* a check that lets a stage awaiting verification through as well
NotPaidNorVerifying(stage) == stage.status \notin {"paid", "pending_verification"}

\* stage[0].status !== 'paid'
NotPaid(stage) == stage.status # "paid"

DownloadStageInvoiceHandler(u, stageId) ==
    IF ~Exists(stages, stageId) THEN Refused(404)
    ELSE IF ProjectMissing(stages[stageId]) THEN Refused(404)
    ELSE IF NotOwner(u, stages[stageId]) THEN Refused(403)
    ELSE IF NotPaid(stages[stageId]) THEN Refused(400)
    ELSE [ res |-> [status |-> 200, doc |-> Some(StageInvoice(stages, stageId))],
           mail |-> <<>>,
           stages |-> stages, notifications |-> notifications, now |-> now ]

DownloadStageInvoice(u, stageId) ==
    Install(DownloadStageInvoiceHandler(u, stageId))

----------------------------------------------------------------------------
(* POST /api/projects/:id/budget-negotiations *)

\* the row the handler creates
NewNegotiation(projectId, u, originalPrice, proposedPrice) ==
    [ projectId |-> projectId,
      proposedBy |-> u,
      originalPrice |-> originalPrice,
      proposedPrice |-> proposedPrice,
      status |-> "pending" ]

\* the other party: every admin for a client's proposal, the project's client for an admin's
NegotiationTargets(u, clientId, admins) ==
    IF Role(u) = "client" THEN admins
    ELSE IF Role(u) = "admin" THEN <<clientId>>
    ELSE <<>>

CreateBudgetNegotiationHandler(u, projectId, proposedPrice) ==
    IF ~Exists(projects, projectId)
    THEN [ res |-> Reply(404), mail |-> <<>>, projects |-> projects,
           negotiations |-> negotiations, notifications |-> notifications ]
    ELSE LET project == projects[projectId]
             targets == NegotiationTargets(u, project.clientId, AdminUsers(users))
         IN [ res |-> Reply(201),
              mail |-> FanOutMail(targets, "budget_negotiation"),
              projects |-> projects,
              negotiations |-> Append(negotiations,
                                      NewNegotiation(projectId, u, project.price, proposedPrice)),
              notifications |-> FanOut(notifications, targets, "Negociacion de Presupuesto",
                                       <<project.name>>, "info") ]

\* the action of a handler of a negotiation
InstallNegotiation(out) ==
    /\ Len(out.negotiations) <= MaxNegotiations
    /\ projects' = out.projects
    /\ negotiations' = out.negotiations
    /\ notifications' = out.notifications
    /\ UNCHANGED <<users, stages, timeline, now, calls, realtime, billing>>

CreateBudgetNegotiation(u, projectId, proposedPrice) ==
    InstallNegotiation(CreateBudgetNegotiationHandler(u, projectId, proposedPrice))

----------------------------------------------------------------------------
(* PUT /api/budget-negotiations/:id/respond *)

ResponseStatuses == {"accepted", "rejected", "countered"}

\* an update that writes the price the negotiation started from
AcceptedProjectUpdatesOriginalPrice(negotiation) ==
    [price |-> negotiation.originalPrice, status |-> "in_progress"]

\* storage.updateProject(negotiation.projectId, { price, status: "in_progress" })
AcceptedProjectUpdates(negotiation) ==
    [price |-> negotiation.proposedPrice, status |-> "in_progress"]

\* the acceptance emails: one per admin and one more to the system mailbox,
\* sent when the project and its client are found
AcceptanceMail(found, admins) ==
    IF found
    THEN [i \in 1..Len(admins) |-> Email(admins[i], "budget_accepted", TRUE)]
         \o <<Email(SystemMailbox, "budget_accepted", TRUE)>>
    ELSE <<>>

\* a test that looks at the counter price only
CounteringWheneverPriced(status, counterPrice) == counterPrice # None

\* status === "countered" && counterPrice
Countering(status, counterPrice) == status = "countered" /\ counterPrice # None

RespondBudgetNegotiationHandler(u, negotiationId, status, counterPrice) ==
    LET found == Exists(negotiations, negotiationId)
        accepting == status = "accepted" /\ found
        countering == Countering(status, counterPrice) /\ found
        negotiation == negotiations[negotiationId]
        pid == negotiation.projectId
        grown == IF countering
                 THEN Append(negotiations,
                             NewNegotiation(pid, u, negotiation.proposedPrice, counterPrice[1]))
                 ELSE negotiations
    IN [ res |-> Reply(200),
         mail |-> IF accepting
                  THEN AcceptanceMail(Exists(projects, pid) /\ UserExists(users, projects[pid].clientId),
                                      AdminUsers(users))
                  ELSE <<>>,
         projects |-> IF accepting /\ Exists(projects, pid)
                      THEN UpdateRow(projects, pid, AcceptedProjectUpdates(negotiation))
                      ELSE projects,
         negotiations |-> IF found THEN UpdateRow(grown, negotiationId, [status |-> status]) ELSE grown,
         notifications |-> notifications ]

RespondBudgetNegotiation(u, negotiationId, status, counterPrice) ==
    InstallNegotiation(RespondBudgetNegotiationHandler(u, negotiationId, status, counterPrice))

\* what may throw inside the handler's try: the project update, a read that
\* follows it (getProject, getUserById, getUsersByRole), the negotiation update
RespondFaults == {"none", "project", "lookup", "negotiation"}

\* a failure that takes the project update back with it
ProjectsAtFailureRolledBack(written, fault) == projects

\* the project update is its own statement: it stays when a later await throws
ProjectsAtFailure(written, fault) == IF fault = "project" THEN projects ELSE written

\* the handler when one of its awaits throws: the outer catch replies 500
RespondBudgetNegotiationFailing(u, negotiationId, status, counterPrice, fault) ==
    LET ok == RespondBudgetNegotiationHandler(u, negotiationId, status, counterPrice)
        found == Exists(negotiations, negotiationId)
        accepting == status = "accepted" /\ found
    IN IF fault = "none" \/ (fault \in {"project", "lookup"} /\ ~accepting)
       THEN ok
       ELSE [ res |-> Reply(500),
              mail |-> IF fault = "negotiation" THEN ok.mail ELSE <<>>,
              projects |-> ProjectsAtFailure(ok.projects, fault),
              negotiations |-> IF fault # "negotiation" THEN negotiations
                               ELSE IF found
                                    THEN [ok.negotiations EXCEPT
                                             ![negotiationId] = negotiations[negotiationId]]
                                    ELSE ok.negotiations,
              notifications |-> notifications ]

RespondBudgetNegotiationFails(u, negotiationId, status, counterPrice, fault) ==
    InstallNegotiation(RespondBudgetNegotiationFailing(u, negotiationId, status, counterPrice, fault))

----------------------------------------------------------------------------
(* PUT /api/projects/:id and PUT /api/admin/projects/:id *)

\* the request bodies that are tried: the handlers pass req.body to the update as it is
ProjectBodies ==
    << [status |-> "completed"], [progress |-> 150], [price |-> 1] >>

\* updates.status && updates.status !== originalProject.status
HasStatusChange(project, updates) ==
    "status" \in DOMAIN updates /\ updates.status # project.status

\* the emails of an admin's update: the client's, and on a status change one per
\* admin and one to the system mailbox
ProjectUpdatedMail(project, updates, admins) ==
    FanOutMail(<<project.clientId>>, "project_updated")
    \o (IF HasStatusChange(project, updates)
        THEN [i \in 1..Len(admins) |-> Email(admins[i], "status_change", TRUE)]
             \o <<Email(SystemMailbox, "status_change", TRUE)>>
        ELSE <<>>)

\* req.user!.role === "admin": only an admin's update is notified
UpdateIsNotified(u) == Role(u) = "admin"

UpdateProjectHandler(u, projectId, updates) ==
    IF ~Exists(projects, projectId)
    THEN [ res |-> Reply(404), mail |-> <<>>, projects |-> projects,
           negotiations |-> negotiations, notifications |-> notifications ]
    ELSE LET project == projects[projectId]
         IN [ res |-> Reply(200),
              mail |-> IF UpdateIsNotified(u)
                       THEN ProjectUpdatedMail(project, updates, AdminUsers(users))
                       ELSE <<>>,
              projects |-> UpdateRow(projects, projectId, updates),
              negotiations |-> negotiations,
              notifications |->
                  IF UpdateIsNotified(u)
                  THEN FanOut(notifications, <<project.clientId>>, "Proyecto Actualizado",
                              <<project.name>>, "info")
                  ELSE notifications ]

\* the action of a handler that writes projects, negotiations and notifications;
\* the notifications of the updates are capped at MaxNotifications rows
InstallProject(out) ==
    /\ Len(out.notifications) <= MaxNotifications
    /\ projects' = out.projects
    /\ negotiations' = out.negotiations
    /\ notifications' = out.notifications
    /\ UNCHANGED <<users, stages, timeline, now, calls, realtime, billing>>

UpdateProject(u, projectId, updates) ==
    InstallProject(UpdateProjectHandler(u, projectId, updates))

\* the admin route: no lookup of the project and no notification
AdminUpdateProjectHandler(u, projectId, updates) ==
    [ res |-> IF Role(u) = "admin" THEN Reply(200) ELSE Reply(403),
      mail |-> <<>>,
      projects |-> IF Role(u) = "admin" /\ Exists(projects, projectId)
                   THEN UpdateRow(projects, projectId, updates)
                   ELSE projects,
      negotiations |-> negotiations,
      notifications |-> notifications ]

AdminUpdateProject(u, projectId, updates) ==
    InstallProject(AdminUpdateProjectHandler(u, projectId, updates))

----------------------------------------------------------------------------
(* DELETE /api/admin/users/:id *)

DeleteUserHandler(u, target) ==
    IF Role(u) # "admin" THEN [res |-> Reply(403), users |-> users]
    ELSE IF u = target THEN [res |-> Reply(400), users |-> users]
    ELSE IF ~UserExists(users, target) THEN [res |-> Reply(404), users |-> users]
    ELSE [res |-> Reply(200), users |-> users \ {target}]

DeleteUser(u, target) ==
    LET out == DeleteUserHandler(u, target)
    IN /\ users' = out.users
       /\ UNCHANGED <<projects, stages, timeline, negotiations, notifications, now, calls, realtime, billing>>

----------------------------------------------------------------------------
(* Overlapping requests.  A handler runs until its next await; between two  *)
(* awaits of one request the steps of another request may run.  A call is   *)
(* the position of a request in its handler with the locals it holds.       *)

CallIds == 1..Len(calls)

\* a call that has not replied yet
InFlight(op, pc, u, id, reason, row) ==
    [op |-> op, pc |-> pc, user |-> u, id |-> id, reason |-> reason,
     row |-> row, seeded |-> 0, res |-> 0]

\* a call that replied before reading anything more
Replied(op, u, id, reason, code) ==
    [op |-> op, pc |-> "done", user |-> u, id |-> id, reason |-> reason,
     row |-> None, seeded |-> 0, res |-> code]

\* the call goes on to its next await, or replies
Moved(c, pc) == [calls EXCEPT ![c] = [@ EXCEPT !.pc = pc]]
Done(c, code) == [calls EXCEPT ![c] = [@ EXCEPT !.pc = "done", !.res = code]]

\* requireRole, the select of the stage and the check of its status
BeginReview(op, u, stageId, reason) ==
    /\ Len(calls) < MaxCalls
    /\ calls' = Append(calls,
                       IF Role(u) # "admin" THEN Replied(op, u, stageId, reason, 403)
                       ELSE IF ~Exists(stages, stageId) THEN Replied(op, u, stageId, reason, 404)
                       ELSE IF NotPendingVerification(stages[stageId])
                            THEN Replied(op, u, stageId, reason, 400)
                       ELSE InFlight(op, "lookup", u, stageId, reason, Some(stages[stageId])))
    /\ UNCHANGED <<users, projects, stages, timeline, negotiations, notifications, now, realtime, billing>>

\* storage.getProject and, when approving, storage.getUserById
LookupReview(c) ==
    /\ calls[c].pc = "lookup"
    /\ calls' = IF ProjectMissing(calls[c].row[1]) THEN Done(c, 404)
                ELSE IF calls[c].op = "approve" /\ ClientMissing(calls[c].row[1]) THEN Done(c, 404)
                ELSE Moved(c, "write")
    /\ UNCHANGED <<users, projects, stages, timeline, negotiations, notifications, now, realtime, billing>>

\* the columns the call writes, from the row it read
ReviewUpdates(call, t) ==
    IF call.op = "approve"
    THEN ApprovePaymentUpdates(call.user, t)
    ELSE RejectPaymentUpdates(call.row[1].paymentData, call.user, t, call.reason)

\* an update that writes only a row that still awaits verification
ReviewWrittenIfPending(table, call, t) ==
    IF table[call.id].status = "pending_verification"
    THEN UpdateRow(table, call.id, ReviewUpdates(call, t))
    ELSE table

\* storage.updatePaymentStage(stageId, {...}): the row is written as it is now
ReviewWritten(table, call, t) ==
    UpdateRow(table, call.id, ReviewUpdates(call, t))

\* two overlapping calls may read the same instant
Tick(t) == IF t <= MaxNow THEN t + 1 ELSE t

WriteReview(c) ==
    /\ calls[c].pc = "write"
    /\ stages' = ReviewWritten(stages, calls[c], now)
    /\ now' = Tick(now)
    /\ calls' = Moved(c, "notify")
    /\ UNCHANGED <<users, projects, timeline, negotiations, notifications, realtime, billing>>

\* storage.createNotification for the project's client, then the reply
NotifyReview(c) ==
    LET row == calls[c].row[1]
        project == projects[row.projectId]
    IN /\ calls[c].pc = "notify"
       /\ notifications' = IF calls[c].op = "approve"
                           THEN ApprovedNotification(notifications, project, row)
                           ELSE RejectedNotification(notifications, project, row, calls[c].reason)
       /\ calls' = Done(c, 200)
       /\ UNCHANGED <<users, projects, stages, timeline, negotiations, now, realtime, billing>>

\* storage.getProject, then one storage.createPaymentStage per entry of the body
\* and the emails of the available stages
BeginStages(projectId, plan) ==
    /\ Len(calls) < MaxCalls
    /\ IF ~Exists(projects, projectId)
       THEN /\ calls' = Append(calls, Replied("stages", 0, projectId, "", 404))
            /\ UNCHANGED stages
       ELSE /\ Len(stages) + Len(plan) <= MaxStages
            /\ stages' = stages \o CreatedStages(projectId, projects[projectId].price, plan)
            /\ calls' = Append(calls, InFlight("stages", "check", 0, projectId, "", None))
    /\ UNCHANGED <<users, projects, timeline, negotiations, notifications, now, realtime, billing>>

\* const hasTimeline = await storage.hasProjectTimeline(projectId)
CheckTimeline(c) ==
    /\ calls[c].pc = "check"
    /\ calls' = IF HasProjectTimeline(timeline, calls[c].id) THEN Done(c, 200) ELSE Moved(c, "seed")
    /\ UNCHANGED <<users, projects, stages, timeline, negotiations, notifications, now, realtime, billing>>

\* timelineItems[i]
TimelineItem(projectId, i) ==
    [projectId |-> projectId, title |-> TimelineTitles[i], status |-> "pending"]

\* one storage.createProjectTimeline of the loop; the reply follows the last one
SeedItem(c) ==
    LET i == calls[c].seeded + 1
    IN /\ calls[c].pc = "seed"
       /\ timeline' = Append(timeline, TimelineItem(calls[c].id, i))
       /\ calls' = IF i = Len(TimelineTitles)
                   THEN [calls EXCEPT ![c] = [@ EXCEPT !.seeded = i, !.pc = "done", !.res = 200]]
                   ELSE [calls EXCEPT ![c] = [@ EXCEPT !.seeded = i]]
       /\ UNCHANGED <<users, projects, stages, negotiations, notifications, now, realtime, billing>>

----------------------------------------------------------------------------
(* The real-time channel: wss.on("connection"), ws.on("message"),          *)
(* ws.on("pong") and the heartbeat interval.  A connection is a record of  *)
(* its readyState (open or not), its isAlive flag, the userId of its       *)
(* closure, whether a ping of the server is still unanswered, and the      *)
(* messages the server sent on it in its latest handler.                   *)

ClientIds_ws == 1..Len(clients)

\* a message the server sends: its type, and the data or userId it carries
Sent(type, data) == [type |-> type, data |-> data]

\* the connection after wss.on("connection"): isAlive = true, userId = null, welcome sent
NewConnection ==
    [open |-> TRUE, isAlive |-> TRUE, userId |-> None, pinged |-> FALSE,
     sent |-> <<Sent("welcome", None)>>]

\* the texts a client may send: what JSON.parse makes of them, and the type and
\* userId of the parsed object (None when absent)
WsMessages ==
    { [json |-> "object", type |-> Some("auth"), userId |-> Some(3)],
      [json |-> "object", type |-> Some("auth"), userId |-> None],
      [json |-> "object", type |-> Some("auth"), userId |-> Some(0)],
      [json |-> "object", type |-> Some("chat"), userId |-> Some(3)],
      [json |-> "object", type |-> None, userId |-> None],
      [json |-> "null", type |-> None, userId |-> None],
      [json |-> "invalid", type |-> None, userId |-> None] }

\* JSON.parse(message) throws, or data.type throws on null: the catch logs it
Throws(m) == m.json \in {"invalid", "null"}

\* data.type === 'auth'
IsAuth(m) == m.type = Some("auth")

\* if (data.userId)
HasUserId(m) == m.userId # None /\ m.userId[1] # 0

\* registerWSConnection(userId, ws)
RegisterWSConnection(reg, userId, c) ==
    [u \in (DOMAIN reg) \cup {userId} |-> IF u = userId THEN c ELSE reg[u]]

\* the connection is taken out of the registry when it closes
Unregister(reg, c) ==
    [u \in {v \in DOMAIN reg : reg[v] # c} |-> reg[u]]

\* the reply of the auth branch
AuthReply(m) ==
    IF HasUserId(m) THEN <<Sent("auth_success", m.userId)>> ELSE <<Sent("auth_error", None)>>

\* an echo that carries the type of the message only
EchoReplyOfType(m) == <<Sent("echo", m.type)>>

\* the echo follows the auth branch, it is not its else
EchoReply(m) == <<Sent("echo", Some(m))>>

\* ws.on("message"): the replies, the closure's userId and the registry afterwards
OnMessage(c, m) ==
    LET conn == clients[c]
        registers == IsAuth(m) /\ HasUserId(m)
        replies == (IF IsAuth(m) THEN AuthReply(m) ELSE <<>>) \o EchoReply(m)
    IN IF Throws(m)
       THEN [sent |-> <<>>, userId |-> conn.userId, registry |-> registry]
       ELSE [ sent |-> IF conn.open THEN replies ELSE <<>>,
              userId |-> IF registers THEN m.userId ELSE conn.userId,
              registry |-> IF registers
                           THEN RegisterWSConnection(registry, m.userId[1], c)
                           ELSE registry ]

Connect ==
    /\ Len(clients) < MaxClients
    /\ clients' = Append(clients, NewConnection)
    /\ UNCHANGED <<users, projects, stages, timeline, negotiations, notifications, now, calls,
                   registry, billing>>

Receive(c, m) ==
    LET out == OnMessage(c, m)
    IN /\ clients[c].open
       /\ clients' = [clients EXCEPT ![c] = [@ EXCEPT !.sent = out.sent, !.userId = out.userId]]
       /\ registry' = out.registry
       /\ UNCHANGED <<users, projects, stages, timeline, negotiations, notifications, now, calls,
                      billing>>

\* a flag that the ping leaves as it was
AliveAfterPingUntouched(conn) == conn.isAlive

\* ws.isAlive = false; ws.ping()
AliveAfterPing(conn) == FALSE

\* the body of the interval's forEach for one connection
HeartbeatOf(conn) ==
    IF ~conn.open THEN conn
    ELSE IF conn.isAlive = FALSE
         THEN [conn EXCEPT !.open = FALSE, !.pinged = FALSE, !.sent = <<>>]
         ELSE [conn EXCEPT !.isAlive = AliveAfterPing(conn), !.pinged = TRUE,
                           !.sent = <<Sent("ping", None)>>]

\* the interval fires: every connection of wss.clients is visited
Heartbeat(table) == [c \in 1..Len(table) |-> HeartbeatOf(table[c])]

\* the connections the heartbeat terminates
Terminated(table) == {c \in 1..Len(table) : table[c].open /\ ~Heartbeat(table)[c].open}

RECURSIVE UnregisterAll(_, _)
UnregisterAll(reg, cs) ==
    IF cs = {} THEN reg
    ELSE LET c == CHOOSE x \in cs : TRUE
         IN UnregisterAll(Unregister(reg, c), cs \ {c})

HeartbeatTick ==
    /\ clients # <<>>
    /\ clients' = Heartbeat(clients)
    /\ registry' = UnregisterAll(registry, Terminated(clients))
    /\ UNCHANGED <<users, projects, stages, timeline, negotiations, notifications, now, calls,
                   billing>>

\* ws.on('pong'): the client answers the ping that is outstanding
Pong(c) ==
    /\ clients[c].open /\ clients[c].pinged
    /\ clients' = [clients EXCEPT ![c] = [@ EXCEPT !.isAlive = TRUE, !.pinged = FALSE, !.sent = <<>>]]
    /\ UNCHANGED <<users, projects, stages, timeline, negotiations, notifications, now, calls,
                   registry, billing>>

\* the client closes the connection
Close(c) ==
    /\ clients[c].open
    /\ clients' = [clients EXCEPT ![c] = [@ EXCEPT !.open = FALSE, !.pinged = FALSE, !.sent = <<>>]]
    /\ registry' = Unregister(registry, c)
    /\ UNCHANGED <<users, projects, stages, timeline, negotiations, notifications, now, calls,
                   billing>>

----------------------------------------------------------------------------
(* POST /api/admin/company-billing-info and PUT /api/admin/company-billing-info/:id *)

\* the request bodies that are tried; "" is a field that is missing
CompanyBodies ==
    { [companyName |-> "SoftwarePar", ruc |-> "80012345-6", address |-> "Calle 1", city |-> "Asuncion"],
      [companyName |-> "SoftwarePar SA", ruc |-> "80012345-6", address |-> "Calle 2", city |-> "Asuncion"],
      [companyName |-> "", ruc |-> "80012345-6", address |-> "Calle 1", city |-> "Asuncion"] }

\* db.update(companyBillingInfo).set({ isActive: false }): every row
DeactivateAll(table) == [i \in 1..Len(table) |-> [table[i] EXCEPT !.isActive = FALSE]]

\* { ...req.body, isActive: true }
ActiveRow(body) == [companyName |-> body.companyName, ruc |-> body.ruc,
                    address |-> body.address, city |-> body.city, isActive |-> TRUE]

CreateCompanyBillingInfoHandler(u, body) ==
    IF Role(u) # "admin"
    THEN [res |-> Reply(403), companyBillingInfo |-> companyBillingInfo]
    ELSE [res |-> Reply(201),
          companyBillingInfo |-> Append(DeactivateAll(companyBillingInfo), ActiveRow(body))]

\* !updates.companyName || !updates.ruc || !updates.address || !updates.city
MissingRequired(updates) ==
    updates.companyName = "" \/ updates.ruc = "" \/ updates.address = "" \/ updates.city = ""

UpdateCompanyBillingInfoHandler(u, companyId, updates) ==
    IF Role(u) # "admin"
    THEN [res |-> Reply(403), companyBillingInfo |-> companyBillingInfo]
    ELSE IF MissingRequired(updates)
    THEN [res |-> Reply(400), companyBillingInfo |-> companyBillingInfo]
    ELSE IF ~Exists(companyBillingInfo, companyId)
    THEN [res |-> Reply(404), companyBillingInfo |-> companyBillingInfo]
    ELSE [res |-> Reply(200),
          companyBillingInfo |-> [companyBillingInfo EXCEPT ![companyId] = ActiveRow(updates)]]

InstallCompany(out) ==
    /\ Len(out.companyBillingInfo) <= MaxCompanies
    /\ companyBillingInfo' = out.companyBillingInfo
    /\ UNCHANGED <<users, projects, stages, timeline, negotiations, notifications, now, calls,
                   realtime, invoices, transactions>>

CreateCompanyBillingInfo(u, body) == InstallCompany(CreateCompanyBillingInfoHandler(u, body))

UpdateCompanyBillingInfo(u, companyId, updates) ==
    InstallCompany(UpdateCompanyBillingInfoHandler(u, companyId, updates))

----------------------------------------------------------------------------
(* POST /api/admin/invoices and POST /api/client/invoices/:id/pay *)

\* storage.createInvoiceForProject(projectId, amount, dueDate): an invoice of the
\* project's client, pending
NewInvoice(projectId, amount) ==
    [projectId |-> projectId, clientId |-> projects[projectId].clientId,
     amount |-> amount, status |-> "pending", paidAt |-> None]

CreateInvoiceHandler(u, projectId, amount) ==
    IF Role(u) # "admin"
    THEN [res |-> Reply(403), invoices |-> invoices, transactions |-> transactions,
          notifications |-> notifications]
    ELSE IF amount = 0
    THEN [res |-> Reply(400), invoices |-> invoices, transactions |-> transactions,
          notifications |-> notifications]
    ELSE IF ~Exists(projects, projectId)
    THEN [res |-> Reply(500), invoices |-> invoices, transactions |-> transactions,
          notifications |-> notifications]
    ELSE [res |-> Reply(201),
          invoices |-> Append(invoices, NewInvoice(projectId, amount)),
          transactions |-> transactions,
          notifications |-> CreateNotification(notifications, projects[projectId].clientId,
                                               "Nueva Factura Generada",
                                               <<projects[projectId].name>>, "info")]

\* the row the pay handler inserts
NewTransaction(u, invoiceId, paymentMethodId, t) ==
    [invoiceId |-> invoiceId, paymentMethodId |-> paymentMethodId, userId |-> u,
     amount |-> invoices[invoiceId].amount, status |-> "completed", completedAt |-> t]

\* !invoice[0] || invoice[0].clientId !== req.user!.id
NotOwnInvoice(u, invoiceId) ==
    ~Exists(invoices, invoiceId) \/ invoices[invoiceId].clientId # u

\* paymentMethodId 0 stands for a body without paymentMethodId
PayInvoiceHandler(u, invoiceId, paymentMethodId) ==
    IF paymentMethodId = 0
    THEN [res |-> Reply(400), invoices |-> invoices, transactions |-> transactions,
          notifications |-> notifications]
    ELSE IF NotOwnInvoice(u, invoiceId)
    THEN [res |-> Reply(404), invoices |-> invoices, transactions |-> transactions,
          notifications |-> notifications]
    ELSE [res |-> Reply(200),
          invoices |-> UpdateRow(invoices, invoiceId, [status |-> "paid", paidAt |-> Some(now)]),
          transactions |-> Append(transactions, NewTransaction(u, invoiceId, paymentMethodId, now)),
          notifications |-> FanOut(notifications, AdminUsers(users), "Pago Recibido",
                                   <<FullName(u)>>, "success")]

InstallInvoice(out) ==
    /\ Len(out.invoices) <= MaxInvoices
    /\ Len(out.transactions) <= MaxTransactions
    /\ invoices' = out.invoices
    /\ transactions' = out.transactions
    /\ notifications' = out.notifications
    /\ UNCHANGED <<users, projects, stages, timeline, negotiations, now, calls,
                   realtime, companyBillingInfo>>

CreateInvoice(u, projectId, amount) == InstallInvoice(CreateInvoiceHandler(u, projectId, amount))

PayInvoice(u, invoiceId, paymentMethodId) ==
    InstallInvoice(PayInvoiceHandler(u, invoiceId, paymentMethodId))

----------------------------------------------------------------------------
(* The requests the specifications try.  The requester is an authenticated *)
(* user, a row of users.                                                   *)

ProjectRequests ==
    { [user |-> 3, price |-> 1000, clientId |-> None],
      [user |-> 1, price |-> 1000, clientId |-> Some(3)] }

ConfirmRequests ==
    { [user |-> 3, upload |-> [file |-> Some(ProofFile), info |-> None]],
      [user |-> 3, upload |-> [file |-> None, info |-> None]],
      [user |-> 1, upload |-> [file |-> None, info |-> Some(ProofFileInfo)]] }

RejectRequests ==
    { [user |-> 1, reason |-> "comprobante ilegible"],
      [user |-> 2, reason |-> "monto incorrecto"],
      [user |-> 3, reason |-> "monto incorrecto"] }

NegotiationRequests ==
    { [user |-> 3, proposedPrice |-> 900],
      [user |-> 1, proposedPrice |-> 1200],
      [user |-> 2, proposedPrice |-> 1200] }

RespondRequests ==
    { [user |-> 1, status |-> "accepted", counterPrice |-> None],
      [user |-> 3, status |-> "accepted", counterPrice |-> None],
      [user |-> 1, status |-> "rejected", counterPrice |-> None],
      [user |-> 1, status |-> "countered", counterPrice |-> Some(1100)],
      [user |-> 3, status |-> "countered", counterPrice |-> None] }

\* the stage the lifecycle requests are tried on, and a stage that does not exist
StageIdsTried == {1, MaxStages + 1}
ProjectIdsTried == 1..(MaxProjects + 1)
NegotiationIdsTried == 1..(MaxNegotiations + 1)

\* the requests that create the projects and their stages
Creation ==
    \/ \E r \in ProjectRequests :
          r.user \in users /\ CreateProject(r.user, r.price, r.clientId)
    \/ \E p \in ProjectIdsTried, plan \in StagePlans, smtpDown \in BOOLEAN :
          CreatePaymentStages(p, plan, smtpDown)

\* the requests of a stage's lifecycle; every write is followed by its notifications
Lifecycle ==
    \/ \E r \in ConfirmRequests, s \in StageIdsTried, m \in PaymentMethods :
          r.user \in users /\ ConfirmPayment(r.user, s, m, r.upload, "none")
    \/ \E u \in users, s \in StageIdsTried :
          ApprovePayment(u, s, "none")
    \/ \E r \in RejectRequests, s \in StageIdsTried :
          r.user \in users /\ RejectPayment(r.user, s, r.reason, "none")
    \/ \E u \in users, s \in StageIdsTried :
          DownloadStageInvoice(u, s)

\* the payment-stage lifecycle
Next ==
    \/ Creation
    \/ Lifecycle
    \/ \E s \in StageIdsTried, b \in PatchBodies :
          PatchPaymentStage(s, b)

Spec == Init /\ [][Next]_vars

\* the payment-stage lifecycle while admins delete users
NextUsers ==
    \/ Creation
    \/ Lifecycle
    \/ \E u \in users, t \in UserIds :
          DeleteUser(u, t)

SpecUsers == Init /\ [][NextUsers]_vars

\* no negotiation is stored for project p
NotNegotiated(p) == \A n \in 1..Len(negotiations) : negotiations[n].projectId # p

\* the creation of a project's stages and the one budget negotiation of the project
NextBudget ==
    \/ Creation
    \/ \E r \in NegotiationRequests, p \in ProjectIdsTried :
          r.user \in users /\ NotNegotiated(p) /\ CreateBudgetNegotiation(r.user, p, r.proposedPrice)
    \/ \E r \in RespondRequests, n \in NegotiationIdsTried :
          /\ r.user \in users
          /\ r.counterPrice = None
          /\ RespondBudgetNegotiation(r.user, n, r.status, r.counterPrice)

SpecBudget == Init /\ [][NextBudget]_vars

\* the budget negotiations of a project: proposals, counter-proposals and responses
NextNegotiation ==
    \/ \E r \in ProjectRequests :
          r.user \in users /\ CreateProject(r.user, r.price, r.clientId)
    \/ \E r \in NegotiationRequests, p \in ProjectIdsTried :
          r.user \in users /\ CreateBudgetNegotiation(r.user, p, r.proposedPrice)
    \/ \E r \in RespondRequests, n \in NegotiationIdsTried :
          r.user \in users /\ RespondBudgetNegotiation(r.user, n, r.status, r.counterPrice)

SpecNegotiation == Init /\ [][NextNegotiation]_vars

\* the updates of a project by its users and the negotiation of its budget
NextProjects ==
    \/ \E r \in ProjectRequests :
          r.user \in users /\ CreateProject(r.user, r.price, r.clientId)
    \/ \E u \in users, p \in ProjectIdsTried, b \in 1..Len(ProjectBodies) :
          UpdateProject(u, p, ProjectBodies[b])
    \/ \E u \in users, p \in ProjectIdsTried, b \in 1..Len(ProjectBodies) :
          AdminUpdateProject(u, p, ProjectBodies[b])
    \/ \E r \in NegotiationRequests, p \in ProjectIdsTried :
          r.user \in users /\ NotNegotiated(p) /\ CreateBudgetNegotiation(r.user, p, r.proposedPrice)
    \/ \E r \in RespondRequests, n \in NegotiationIdsTried :
          /\ r.user \in users
          /\ r.counterPrice = None
          /\ RespondBudgetNegotiation(r.user, n, r.status, r.counterPrice)

SpecProjects == Init /\ [][NextProjects]_vars

\* bodies that give stages whose thresholds do not ascend with their ids
InvoicePlans ==
    StagePlans \cup {<<[name |-> "Reserva", percentage |-> 20, requiredProgress |-> 0]>>}

\* the lifecycle of the stages of such bodies
NextInvoice ==
    \/ \E r \in ProjectRequests :
          r.user \in users /\ CreateProject(r.user, r.price, r.clientId)
    \/ \E p \in ProjectIdsTried, plan \in InvoicePlans :
          CreatePaymentStages(p, plan, FALSE)
    \/ Lifecycle

SpecInvoice == Init /\ [][NextInvoice]_vars

InvoiceIdsTried == 1..(MaxInvoices + 1)
CompanyIdsTried == 1..(MaxCompanies + 1)

\* the amounts and the payment methods of the requests; 0 is a missing field
AmountsTried == {0, 500}
PaymentMethodIdsTried == {0, 1, 2}

\* company billing data, invoices and their payment
NextBilling ==
    \/ CreateProject(3, 1000, None)
    \/ \E u \in users, body \in CompanyBodies : CreateCompanyBillingInfo(u, body)
    \/ \E u \in users, c \in CompanyIdsTried, body \in CompanyBodies :
          UpdateCompanyBillingInfo(u, c, body)
    \/ \E u \in users, p \in ProjectIdsTried, a \in AmountsTried : CreateInvoice(u, p, a)
    \/ \E u \in users, i \in InvoiceIdsTried, pm \in PaymentMethodIdsTried : PayInvoice(u, i, pm)

SpecBilling == Init /\ [][NextBilling]_vars

\* the real-time channel
NextRealtime ==
    \/ Connect
    \/ \E c \in ClientIds_ws, m \in WsMessages : Receive(c, m)
    \/ HeartbeatTick
    \/ \E c \in ClientIds_ws : Pong(c)
    \/ \E c \in ClientIds_ws : Close(c)

SpecRealtime == Init /\ [][NextRealtime]_vars

\* negotiations whose responses may fail at any of their awaits
NextAcceptance ==
    \/ \E r \in ProjectRequests :
          r.user \in users /\ CreateProject(r.user, r.price, r.clientId)
    \/ \E r \in NegotiationRequests, p \in ProjectIdsTried :
          r.user \in users /\ NotNegotiated(p)
             /\ CreateBudgetNegotiation(r.user, p, r.proposedPrice)
    \/ \E r \in RespondRequests, n \in NegotiationIdsTried, fault \in RespondFaults :
          r.user \in users
             /\ RespondBudgetNegotiationFails(r.user, n, r.status, r.counterPrice, fault)

SpecAcceptance == Init /\ [][NextAcceptance]_vars

\* a body of one stage that is available at once
ReservationPlan == <<[name |-> "Reserva", percentage |-> 20, requiredProgress |-> 0]>>

\* the reviews that overlap: two admins and a client
ReviewRequests ==
    { [op |-> "approve", user |-> 1, reason |-> ""],
      [op |-> "reject", user |-> 2, reason |-> "comprobante ilegible"],
      [op |-> "reject", user |-> 3, reason |-> "monto incorrecto"] }

\* the reviews of a submitted payment, followed await by await
NextReview ==
    \/ CreateProject(3, 1000, None)
    \/ CreatePaymentStages(1, ReservationPlan, FALSE)
    \/ ConfirmPayment(3, 1, "transferencia", [file |-> Some(ProofFile), info |-> None], "none")
    \/ \E r \in ReviewRequests :
          r.user \in users /\ BeginReview(r.op, r.user, 1, r.reason)
    \/ \E c \in CallIds : LookupReview(c)
    \/ \E c \in CallIds : WriteReview(c)
    \/ \E c \in CallIds : NotifyReview(c)

SpecReview == Init /\ [][NextReview]_vars

\* the creation of stages, followed await by await
NextSeeding ==
    \/ \E r \in ProjectRequests :
          r.user \in users /\ CreateProject(r.user, r.price, r.clientId)
    \/ \E p \in ProjectIdsTried :
          BeginStages(p, ReservationPlan)
    \/ \E c \in CallIds : CheckTimeline(c)
    \/ \E c \in CallIds : SeedItem(c)

SpecSeeding == Init /\ [][NextSeeding]_vars

----------------------------------------------------------------------------
(* Properties of the payment-stage handlers.  An invariant here quantifies  *)
(* over the requests: what it says of a handler's outcome holds of every    *)
(* request served in every state the specification reaches.                 *)

StageIds == 1..Len(stages)

\* the project of stored stage s has no row
NoProjectRow(s) == stages[s].projectId \notin 1..Len(projects)

\* the client of the project of stored stage s has no row
NoClientRow(s) == projects[stages[s].projectId].clientId \notin users

\* the notifications of a table with a given title addressed to a given user
Addressed(table, title, userId) ==
    {i \in 1..Len(table) : table[i].title = title /\ table[i].userId = userId}

\* out wrote nothing and sent nothing
NothingDone(out) ==
    /\ out.stages = stages
    /\ out.notifications = notifications
    /\ out.now = now
    /\ out.mail = <<>>

\* C1: an admin's approve or reject of a stage whose status is not
\* pending_verification (pending, available or paid) is answered 400 and leaves
\* the stage record as it was; no notification is created and no email sent.
C1_ReviewRefusedOutsidePendingVerification ==
    \A u \in users \cap AdminIds, s \in StageIds, f \in ReviewFaults, reason \in Reasons :
        stages[s].status # "pending_verification" =>
            LET approve == ApprovePaymentHandler(u, s, f)
                reject == RejectPaymentHandler(u, s, reason, f)
            IN /\ approve.res.status = 400
               /\ NothingDone(approve)
               /\ reject.res.status = 400
               /\ NothingDone(reject)

\* a stage that an admin approved is paid: approving or rejecting it again is refused
C1_Witness ==
    \E s \in StageIds :
        /\ stages[s].status = "paid"
        /\ stages[s].approvedBy = Some(1)
        /\ 1 \in users
        /\ ApprovePaymentHandler(1, s, "none").res.status = 400
        /\ RejectPaymentHandler(1, s, "monto incorrecto", "none").res.status = 400

\* the four transitions of the lifecycle
LifecycleTransitions ==
    { <<"pending", "available">>,
      <<"available", "pending_verification">>,
      <<"pending_verification", "paid">>,
      <<"pending_verification", "available">> }

\* C2: every change of a stage's status is one of pending->available,
\* available->pending_verification, pending_verification->paid and
\* pending_verification->available.
C2_OnlyLifecycleTransitions ==
    [][\A s \in StageIds :
          stages'[s].status # stages[s].status
              => <<stages[s].status, stages'[s].status>> \in LifecycleTransitions]_vars

\* C3: an approve that succeeds sets the stage to paid, records paidAt, approvedBy
\* (the approving admin) and approvedAt, and creates exactly one notification, for
\* the client of the stage's project; an admin's approve of a stage in
\* pending_verification succeeds; and after a submit (first clock reading) and an
\* approve (second clock reading) of a stage the client holds exactly one
\* "Pago Aprobado" notification.
C3_ApproveRecordsAndNotifiesClient ==
    /\ \A u \in users, s \in StageIds, f \in ReviewFaults :
          LET out == ApprovePaymentHandler(u, s, f)
          IN /\ ( /\ Role(u) = "admin"
                  /\ stages[s].status = "pending_verification"
                  /\ ~ProjectMissing(stages[s])
                  /\ ~ClientMissing(stages[s])
                  /\ f = "none" ) => out.res.status = 200
             /\ out.res.status = 200 =>
                  /\ out.stages = [stages EXCEPT ![s] =
                                      [@ EXCEPT !.status = "paid",
                                                !.paidAt = Some(now),
                                                !.approvedBy = Some(u),
                                                !.approvedAt = Some(now)]]
                  /\ Len(out.notifications) = Len(notifications) + 1
                  /\ SubSeq(out.notifications, 1, Len(notifications)) = notifications
                  /\ out.notifications[Len(out.notifications)].userId
                        = projects[stages[s].projectId].clientId
                  /\ out.notifications[Len(out.notifications)].title = "Pago Aprobado"
                  /\ out.notifications[Len(out.notifications)].type = "success"
    /\ \A s \in StageIds :
          ( /\ now = 3
            /\ stages[s].status = "paid"
            /\ stages[s].approvedAt = Some(2)
            /\ stages[s].paymentData # None
            /\ "confirmedAt" \in DOMAIN stages[s].paymentData[1]
            /\ stages[s].paymentData[1].confirmedAt = 1 )
          => Cardinality(Addressed(notifications, "Pago Aprobado",
                                   projects[stages[s].projectId].clientId)) = 1

\* a proof was submitted at the first clock reading and approved by admin 2 at the second
C3_Witness ==
    \E s \in StageIds :
        /\ now = 3
        /\ stages[s].status = "paid"
        /\ stages[s].approvedBy = Some(2)
        /\ stages[s].approvedAt = Some(2)
        /\ stages[s].paidAt = Some(2)
        /\ stages[s].paymentData # None
        /\ "confirmedAt" \in DOMAIN stages[s].paymentData[1]
        /\ stages[s].paymentData[1].confirmedAt = 1
        /\ Cardinality(Addressed(notifications, "Pago Aprobado", 3)) = 1

\* C4: a reject that succeeds sets the status back to available, sets
\* paymentMethod and proofFileUrl to null, and stores payment metadata holding
\* every field of the prior metadata with its prior value, together with
\* rejectedBy, rejectedAt and rejectionReason of this rejection.
C4_RejectPreservesPriorMetadata ==
    \A u \in users, s \in StageIds, reason \in Reasons :
        LET out == RejectPaymentHandler(u, s, reason, "none")
            prior == stages[s].paymentData
        IN out.res.status = 200 =>
             /\ out.stages[s].status = "available"
             /\ out.stages[s].paymentMethod = None
             /\ out.stages[s].proofFileUrl = None
             /\ out.stages[s].paymentData # None
             /\ LET data == out.stages[s].paymentData[1]
                IN /\ data.rejectedBy = u
                   /\ data.rejectedAt = now
                   /\ data.rejectionReason = reason
                   /\ prior # None =>
                        \A k \in DOMAIN prior[1] :
                            k \in DOMAIN data /\ data[k] = prior[1][k]

\* C5: a reject that succeeds creates exactly one notification, for the client
\* of the stage's project, and its message contains the reason the admin gave.
C5_RejectNotifiesClientWithReason ==
    \A u \in users, s \in StageIds, reason \in Reasons :
        LET out == RejectPaymentHandler(u, s, reason, "none")
            last == out.notifications[Len(out.notifications)]
        IN out.res.status = 200 =>
             /\ Len(out.notifications) = Len(notifications) + 1
             /\ SubSeq(out.notifications, 1, Len(notifications)) = notifications
             /\ last.userId = projects[stages[s].projectId].clientId
             /\ last.title = "Pago Rechazado"
             /\ \E i \in 1..Len(last.message) : last.message[i] = reason

\* admin 1 rejected a proof as illegible: the stage is available again and the
\* client's notification carries that reason
C5_Witness ==
    \E s \in StageIds, n \in 1..Len(notifications) :
        /\ stages[s].status = "available"
        /\ stages[s].paymentData # None
        /\ "rejectionReason" \in DOMAIN stages[s].paymentData[1]
        /\ stages[s].paymentData[1].rejectionReason = "comprobante ilegible"
        /\ notifications[n].userId = projects[stages[s].projectId].clientId
        /\ notifications[n].title = "Pago Rechazado"
        /\ \E i \in 1..Len(notifications[n].message) :
              notifications[n].message[i] = "comprobante ilegible"

\* thresholds a request may carry
ThresholdsTried == {0, 1, 50, 100}

\* the bodies of the stage plans, and every one-stage body with a threshold tried
PlansTried ==
    StagePlans \cup
    { <<[name |-> "Etapa", percentage |-> 100, requiredProgress |-> rp]>> : rp \in ThresholdsTried }

\* C6: create stages gives each created stage the status available when its
\* requiredProgress is 0 and pending when it is positive; for a project of price
\* 1000 and the stages 50% at threshold 0 and 50% at threshold 50 the first is
\* created available and the second pending.
C6_InitialStatusByThreshold ==
    /\ \A p \in 1..Len(projects), plan \in PlansTried, smtpDown \in BOOLEAN :
          LET out == CreatePaymentStagesHandler(p, plan, smtpDown)
          IN /\ out.res.status = 200
             /\ Len(out.stages) = Len(stages) + Len(plan)
             /\ SubSeq(out.stages, 1, Len(stages)) = stages
             /\ \A i \in 1..Len(plan) :
                   LET row == out.stages[Len(stages) + i]
                   IN /\ row.requiredProgress = plan[i].requiredProgress
                      /\ plan[i].requiredProgress = 0 => row.status = "available"
                      /\ plan[i].requiredProgress > 0 => row.status = "pending"
    /\ \A p \in 1..Len(projects) :
          LET out == CreatePaymentStagesHandler(p,
                        << [name |-> "Anticipo", percentage |-> 50, requiredProgress |-> 0],
                           [name |-> "Entrega", percentage |-> 50, requiredProgress |-> 50] >>,
                        FALSE)
          IN projects[p].price = 1000 =>
               /\ out.stages[Len(stages) + 1].status = "available"
               /\ out.stages[Len(stages) + 2].status = "pending"

\* the two stages of the 50%/0 and 50%/50 body, as they were created
C6_Witness ==
    /\ Len(stages) = 2
    /\ stages[1].requiredProgress = 0
    /\ stages[1].status = "available"
    /\ stages[2].requiredProgress = 50
    /\ stages[2].status = "pending"
    /\ stages[2].paymentData = None

\* C7: a stage is created with the amount project.price * percentage / 100 of
\* the project's price at that moment, and no step changes the amount of a
\* stage that exists, the step that accepts a budget negotiation and overwrites
\* the project's price included.
C7_AmountFixedAtCreation ==
    [][ /\ Len(stages') >= Len(stages)
        /\ \A s \in 1..Len(stages) : stages'[s].amount = stages[s].amount
        /\ \A s \in (Len(stages) + 1)..Len(stages') :
              stages'[s].amount
                  = projects[stages'[s].projectId].price * stages'[s].stagePercentage
      ]_vars

\* a negotiation was accepted and overwrote the price the project's stage was
\* priced with
C7_Witness ==
    \E s \in StageIds, n \in 1..Len(negotiations) :
        /\ negotiations[n].status = "accepted"
        /\ negotiations[n].projectId = stages[s].projectId
        /\ projects[stages[s].projectId].price = negotiations[n].proposedPrice
        /\ projects[stages[s].projectId].price # 1000
        /\ stages[s].amount = 1000 * stages[s].stagePercentage

\* the stage ids a request may name: the stored ones and one more
StageIdsNamed == 1..(Len(stages) + 1)

\* the columns of row s that a submission does not write are as they were, and so
\* is every other row
OnlySubmissionColumns(out, s) ==
    /\ Len(out.stages) = Len(stages)
    /\ \A t \in StageIds \ {s} : out.stages[t] = stages[t]
    /\ \A k \in DOMAIN stages[s] \ {"status", "paymentMethod", "proofFileUrl", "paymentData"} :
          out.stages[s][k] = stages[s][k]

\* the status, method, submitter and timestamp a submission records
SubmissionRecorded(out, u, s, method) ==
    /\ out.stages[s].status = "pending_verification"
    /\ out.stages[s].paymentMethod = Some(method)
    /\ out.stages[s].paymentData # None
    /\ out.stages[s].paymentData[1].confirmedBy = u
    /\ out.stages[s].paymentData[1].confirmedAt = now
    /\ out.stages[s].paymentData[1].method = method

\* C8 as stated: submit proof on an existing stage sets its status to
\* pending_verification whatever its status is and records the payment method,
\* a synthesized proof file reference, the submitter and a timestamp; on a stage
\* that does not exist it is answered 404.
C8_SubmitProofAsStated ==
    \A u \in users, s \in StageIdsNamed, method \in PaymentMethods, up \in Uploads :
        LET out == ConfirmPaymentHandler(u, s, method, up, "none")
        IN IF Exists(stages, s)
           THEN /\ SubmissionRecorded(out, u, s, method)
                /\ out.stages[s].proofFileUrl # None
           ELSE out.res.status = 404

\* C8: submit proof on an existing stage whose project and client exist sets its
\* status to pending_verification whatever its status is and records the payment
\* method, the submitter and the timestamp, whether or not a later notification
\* fails; the proof file reference is a name synthesized from the stage id and the
\* timestamp when a file or a file descriptor is sent and null when neither is;
\* on a stage that does not exist, or whose project or client does not, it is
\* answered 404 and nothing is written.
C8_SubmitProofRecords ==
    \A u \in users, s \in StageIdsNamed, method \in PaymentMethods,
       up \in Uploads, f \in ConfirmFaults :
        LET out == ConfirmPaymentHandler(u, s, method, up, f)
        IN IF ~Exists(stages, s) \/ NoProjectRow(s) \/ NoClientRow(s)
           THEN out.res.status = 404 /\ NothingDone(out)
           ELSE /\ SubmissionRecorded(out, u, s, method)
                /\ OnlySubmissionColumns(out, s)
                /\ (out.stages[s].proofFileUrl = None) <=> (up.file = None /\ up.info = None)
                /\ out.stages[s].proofFileUrl # None =>
                      LET ref == out.stages[s].proofFileUrl[1]
                      IN ref[1] = "comprobante_" /\ ref[2] = s /\ ref[4] = now
                /\ f = "none" => out.res.status = 200

\* a stage that was approved and is paid, and a stage created pending that a
\* submission without a file has put in pending_verification: a submission
\* without a file for either is answered 200 and recorded with no file reference
C8_Witness ==
    \E s \in StageIds :
        /\ \/ stages[s].status = "paid" /\ stages[s].approvedBy # None
           \/ /\ stages[s].status = "pending_verification"
              /\ stages[s].requiredProgress > 0
              /\ stages[s].paymentData # None
              /\ stages[s].proofFileUrl = None
        /\ 3 \in users
        /\ LET out == ConfirmPaymentHandler(3, s, "transferencia",
                                            [file |-> None, info |-> None], "none")
           IN /\ out.res.status = 200
              /\ out.stages[s].status = "pending_verification"
              /\ out.stages[s].proofFileUrl = None

\* the notifications out appended to the table
Appended(out) == SubSeq(out.notifications, Len(notifications) + 1, Len(out.notifications))

\* C9: a submit proof that succeeds creates exactly one notification for every
\* user with the admin role and none for any other user; when the email to the
\* admin or the email to the client fails the response is still the success.
C9_SubmitProofNotifiesEveryAdmin ==
    \A u \in users, s \in StageIds, method \in PaymentMethods,
       up \in Uploads, f \in ConfirmFaults :
        LET out == ConfirmPaymentHandler(u, s, method, up, f)
            new == Appended(out)
            admins == {a \in users : Role(a) = "admin"}
        IN /\ out.res.status = 200 =>
                /\ SubSeq(out.notifications, 1, Len(notifications)) = notifications
                /\ Len(new) = Cardinality(admins)
                /\ \A a \in admins :
                      Cardinality({i \in 1..Len(new) : new[i].userId = a}) = 1
                /\ \A i \in 1..Len(new) :
                      /\ new[i].userId \in admins
                      /\ new[i].title = "Comprobante de Pago Recibido"
           /\ ( /\ f \in {"admin_email", "client_email"}
                /\ ~ProjectMissing(stages[s])
                /\ ~ClientMissing(stages[s]) ) =>
                /\ out.res.status = 200
                /\ \E i \in 1..Len(out.mail) : ~out.mail[i].ok

\* admin 1 was deleted and a proof was then submitted: the one admin left holds
\* the one notification of it
C9_Witness ==
    /\ users = {2, 3}
    /\ \E s \in StageIds : stages[s].status = "pending_verification"
    /\ \E n \in 1..Len(notifications) :
          /\ notifications[n].title = "Comprobante de Pago Recibido"
          /\ notifications[n].userId = 2
          /\ \A m \in 1..Len(notifications) :
                notifications[m].title = "Comprobante de Pago Recibido" => m = n

\* answered 404 with nothing written and nothing sent
ReviewNotFound(out) == out.res.status = 404 /\ NothingDone(out)

\* what the lookups of submit proof, approve, reject and the settlement document
\* answer when the row is missing
LookupsOfStageHandlers ==
    /\ \A u \in users, s \in StageIdsNamed, method \in PaymentMethods,
          up \in Uploads, f \in ConfirmFaults :
          (~Exists(stages, s) \/ NoProjectRow(s) \/ NoClientRow(s))
              => ReviewNotFound(ConfirmPaymentHandler(u, s, method, up, f))
    /\ \A u \in users \cap AdminIds, s \in StageIdsNamed, f \in ReviewFaults :
          \/ ~Exists(stages, s)
          \/ /\ stages[s].status = "pending_verification"
             /\ NoProjectRow(s) \/ NoClientRow(s)
          => ReviewNotFound(ApprovePaymentHandler(u, s, f))
    /\ \A u \in users \cap AdminIds, s \in StageIdsNamed, f \in ReviewFaults, reason \in Reasons :
          \/ ~Exists(stages, s)
          \/ stages[s].status = "pending_verification" /\ NoProjectRow(s)
          => ReviewNotFound(RejectPaymentHandler(u, s, reason, f))
    /\ \A u \in users, s \in StageIdsNamed :
          (~Exists(stages, s) \/ NoProjectRow(s))
              => ReviewNotFound(DownloadStageInvoiceHandler(u, s))

\* create stages wrote nothing and sent nothing
NoStagesCreated(out) ==
    /\ out.res.status = 404
    /\ out.stages = stages
    /\ out.timeline = timeline
    /\ out.mail = <<>>

\* C10 as stated: create stages, submit proof, approve, reject and the settlement
\* document are answered 404 when the project, the stage or the client they read
\* is missing, before a stage is written and before a notification or an email.
C10_MissingRowsAsStated ==
    /\ LookupsOfStageHandlers
    /\ \A p \in 1..(Len(projects) + 1), plan \in PlansTried, smtpDown \in BOOLEAN :
          \/ ~Exists(projects, p)
          \/ ~UserExists(users, projects[p].clientId)
          => NoStagesCreated(CreatePaymentStagesHandler(p, plan, smtpDown))

\* C10: submit proof, approve, reject and the settlement document are answered
\* 404, with no stage written and no notification or email produced, when the
\* stage is missing or when the project or the client they look up is (approve
\* and reject look the project up only for a stage in pending_verification;
\* reject and the settlement document do not look the client up); create stages
\* is answered 404 with nothing written when the project is missing, and when
\* only the project's client is missing it creates the stages, answers 200 and
\* sends no email.
C10_MissingRows ==
    /\ LookupsOfStageHandlers
    /\ \A p \in 1..(Len(projects) + 1), plan \in PlansTried, smtpDown \in BOOLEAN :
          LET out == CreatePaymentStagesHandler(p, plan, smtpDown)
          IN /\ ~Exists(projects, p) => NoStagesCreated(out)
             /\ (Exists(projects, p) /\ ~UserExists(users, projects[p].clientId)) =>
                   /\ out.res.status = 200
                   /\ Len(out.stages) = Len(stages) + Len(plan)
                   /\ out.mail = <<>>

\* the client of a project was deleted while a proof of its stage awaits
\* verification: submit proof and approve are answered 404, and so is a request
\* for a stage that is not stored
C10_Witness ==
    \E s \in StageIds :
        /\ stages[s].status = "pending_verification"
        /\ ~ProjectMissing(stages[s])
        /\ ClientMissing(stages[s])
        /\ 1 \in users
        /\ ApprovePaymentHandler(1, s, "none").res.status = 404
        /\ ConfirmPaymentHandler(1, s, "transferencia",
                                 [file |-> None, info |-> None], "none").res.status = 404
        /\ ApprovePaymentHandler(1, Len(stages) + 1, "none").res.status = 404

\* C11: for approve, reject and submit proof, whenever the stage update is made
\* the caller is answered with the success, also when creating the notification
\* record or sending an email fails afterwards.
C11_NotificationFailureSwallowed ==
    /\ \A u \in users, s \in StageIds, f \in ReviewFaults :
          LET out == ApprovePaymentHandler(u, s, f)
          IN out.stages # stages => out.res.status = 200
    /\ \A u \in users, s \in StageIds, f \in ReviewFaults, reason \in Reasons :
          LET out == RejectPaymentHandler(u, s, reason, f)
          IN out.stages # stages => out.res.status = 200
    /\ \A u \in users, s \in StageIds, f \in ConfirmFaults,
          method \in PaymentMethods, up \in Uploads :
          LET out == ConfirmPaymentHandler(u, s, method, up, f)
          IN out.stages # stages => out.res.status = 200

\* C12: the settlement document is produced only for a stage whose status is
\* paid and a requester who is the client of the stage's project; a requester
\* who is not that client is answered 403, the client asking for a stage in any
\* other status is answered 400, and neither answer carries a document.
C12_DocumentOnlyForPaidStageOfOwner ==
    \A u \in users, s \in StageIds :
        LET out == DownloadStageInvoiceHandler(u, s)
            owner == projects[stages[s].projectId].clientId
        IN /\ out.res.doc # None =>
                /\ stages[s].status = "paid"
                /\ owner = u
                /\ out.res.status = 200
           /\ owner # u => out.res.status = 403 /\ out.res.doc = None
           /\ (owner = u /\ stages[s].status # "paid") =>
                out.res.status = 400 /\ out.res.doc = None
           /\ out.stages = stages
           /\ out.notifications = notifications

\* the client's project has a paid stage and a stage that is not paid: the
\* client gets the document of the first and 400 for the second, an admin 403
C12_Witness ==
    \E s, t \in StageIds :
        /\ stages[s].status = "paid"
        /\ stages[t].status \in {"pending", "available", "pending_verification"}
        /\ {1, 3} \subseteq users
        /\ DownloadStageInvoiceHandler(3, s).res.status = 200
        /\ DownloadStageInvoiceHandler(3, s).res.doc # None
        /\ DownloadStageInvoiceHandler(3, t).res.status = 400
        /\ DownloadStageInvoiceHandler(1, s).res.status = 403

\* the stored stages of the project of stored stage s
StagesOfProjectOf(s) == {t \in StageIds : stages[t].projectId = stages[s].projectId}

\* the thresholds and projects of the stored stages are the same after the step
SameSetOfStages ==
    /\ Len(stages') = Len(stages)
    /\ \A t \in StageIds :
          /\ stages'[t].projectId = stages[t].projectId
          /\ stages'[t].requiredProgress = stages[t].requiredProgress

\* C13: the settlement document numbers its stage "n of total", where total is
\* the number of stages of the stage's project and n is the 1-based position of
\* the stage among them in ascending order of requiredProgress (after every
\* stage of a smaller threshold, not after any of a larger one, no two stages
\* sharing a position); while the set of stages is the same the number is the same.
C13_StageNumberedByThreshold ==
    /\ [](\A u \in users, s \in StageIds :
            LET out == DownloadStageInvoiceHandler(u, s)
                mates == StagesOfProjectOf(s)
                below == {t \in mates : stages[t].requiredProgress < stages[s].requiredProgress}
                notAbove == {t \in mates : stages[t].requiredProgress <= stages[s].requiredProgress}
            IN out.res.doc # None =>
                 LET doc == out.res.doc[1]
                 IN /\ doc.totalStages = Cardinality(mates)
                    /\ doc.stageNumber > Cardinality(below)
                    /\ doc.stageNumber <= Cardinality(notAbove)
                    /\ \A t \in mates \ {s} : StageNumber(stages, t) # doc.stageNumber)
    /\ [][SameSetOfStages =>
            \A s \in StageIds :
                /\ StageNumber(stages', s) = StageNumber(stages, s)
                /\ TotalStages(stages', s) = TotalStages(stages, s)]_vars

\* stage 1, created with the larger threshold, is paid and numbered 2 of 2 in
\* the client's document
C13_Witness ==
    /\ Len(stages) = 2
    /\ stages[1].requiredProgress > stages[2].requiredProgress
    /\ stages[1].status = "paid"
    /\ 3 \in users
    /\ DownloadStageInvoiceHandler(3, 1).res.doc # None
    /\ DownloadStageInvoiceHandler(3, 1).res.doc[1].stageNumber = 2
    /\ DownloadStageInvoiceHandler(3, 1).res.doc[1].totalStages = 2

NegotiationIds == 1..Len(negotiations)

\* the counter prices a response may carry
CounterPricesTried == {None, Some(1100)}

\* C14: a response 'accepted' to a stored negotiation sets the price of the
\* negotiation's project to the negotiation's proposedPrice and the project's
\* status to in_progress, whatever the status was, and sets the negotiation's
\* status to accepted; nothing else of the project or the negotiation changes.
C14_AcceptSetsPriceAndStatus ==
    \A u \in users, n \in NegotiationIds, cp \in CounterPricesTried :
        LET out == RespondBudgetNegotiationHandler(u, n, "accepted", cp)
            pid == negotiations[n].projectId
        IN /\ out.res.status = 200
           /\ out.projects = [projects EXCEPT ![pid] =
                                 [@ EXCEPT !.price = negotiations[n].proposedPrice,
                                           !.status = "in_progress"]]
           /\ out.negotiations = [negotiations EXCEPT ![n] = [@ EXCEPT !.status = "accepted"]]

\* a pending negotiation of a project that an update has marked completed: the
\* acceptance puts the project in progress at the proposed price
C14_Witness ==
    \E n \in NegotiationIds :
        LET pid == negotiations[n].projectId
            out == RespondBudgetNegotiationHandler(1, n, "accepted", None)
        IN /\ negotiations[n].status = "pending"
           /\ projects[pid].status = "completed"
           /\ projects[pid].price # negotiations[n].proposedPrice
           /\ 1 \in users
           /\ out.projects[pid].status = "in_progress"
           /\ out.projects[pid].price = negotiations[n].proposedPrice
           /\ out.negotiations[n].status = "accepted"

\* C15: a response 'countered' to a stored negotiation N appends a negotiation N'
\* of the same project with N'.originalPrice = N.proposedPrice and N'.status =
\* pending, sets N's status to countered and leaves N's two prices as they were.
C15_CounterCreatesSuccessor ==
    \A u \in users, n \in NegotiationIds, cp \in CounterPricesTried :
        LET out == RespondBudgetNegotiationHandler(u, n, "countered", cp)
            last == Len(negotiations) + 1
        IN /\ Len(out.negotiations) = last
           /\ out.negotiations[last].projectId = negotiations[n].projectId
           /\ out.negotiations[last].originalPrice = negotiations[n].proposedPrice
           /\ out.negotiations[last].status = "pending"
           /\ out.negotiations[n].status = "countered"
           /\ out.negotiations[n].originalPrice = negotiations[n].originalPrice
           /\ out.negotiations[n].proposedPrice = negotiations[n].proposedPrice

\* C16: the status of a negotiation only moves from pending to accepted,
\* rejected or countered; once a negotiation is no longer pending no step
\* changes its status, and a project's price changes only in the step that
\* takes a pending negotiation of the project to accepted.
C16_OnlyPendingIsAnswered ==
    [][/\ \A n \in NegotiationIds :
             negotiations'[n].status # negotiations[n].status
                => /\ negotiations[n].status = "pending"
                   /\ negotiations'[n].status \in ResponseStatuses
       /\ \A p \in 1..Len(projects) :
             projects'[p].price # projects[p].price
                => \E n \in NegotiationIds :
                      /\ negotiations[n].projectId = p
                      /\ negotiations[n].status = "pending"
                      /\ negotiations'[n].status = "accepted"
                      /\ projects'[p].price = negotiations[n].proposedPrice
      ]_vars

\* the users an outcome notifies, by a notification row or by an email
Notified(out) ==
    {Appended(out)[i].userId : i \in 1..Len(Appended(out))}
        \cup ({out.mail[i].to : i \in 1..Len(out.mail)} \ {SystemMailbox})

\* the party that did not author the action: the project's client when an
\* admin acted, every admin when the client acted
OtherParty(u, project) ==
    IF Role(u) = "admin" THEN {project.clientId} ELSE users \cap AdminIds

\* C17: every creation of a negotiation and every response to one notifies the
\* party that did not author it (the client when an admin acted, every admin
\* when the client acted) and never the author.
C17_OtherPartyNotified ==
    /\ \A r \in NegotiationRequests, p \in 1..Len(projects) :
          r.user \in users
             => Notified(CreateBudgetNegotiationHandler(r.user, p, r.proposedPrice))
                    = OtherParty(r.user, projects[p]) \ {r.user}
    /\ \A r \in RespondRequests, n \in NegotiationIds :
          r.user \in users
             => Notified(RespondBudgetNegotiationHandler(r.user, n, r.status, r.counterPrice))
                    = OtherParty(r.user, projects[negotiations[n].projectId]) \ {r.user}

ProjectStatuses == {"pending", "in_progress", "completed", "cancelled"}

\* C19: no project update requested by a user who is not an admin changes a
\* project's status or progress, no project update changes a project's price
\* (only the acceptance of a negotiation does), and every stored project has a
\* status among pending, in_progress, completed, cancelled and a progress
\* within 0..100.
C19_ProjectWrittenByAdminOnly ==
    /\ \A p \in 1..Len(projects) :
          /\ projects[p].status \in ProjectStatuses
          /\ projects[p].progress \in 0..100
    /\ \A u \in users, p \in 1..Len(projects), b \in 1..Len(ProjectBodies) :
          LET out == UpdateProjectHandler(u, p, ProjectBodies[b])
              adm == AdminUpdateProjectHandler(u, p, ProjectBodies[b])
          IN /\ out.projects[p].price = projects[p].price
             /\ adm.projects[p].price = projects[p].price
             /\ Role(u) # "admin"
                   => /\ out.projects[p].status = projects[p].status
                      /\ out.projects[p].progress = projects[p].progress
                      /\ adm.projects = projects

\* the status a review leaves in the stage, and the title of its notification
ReviewedStatus(op) == IF op = "approve" THEN "paid" ELSE "available"
ReviewedTitle(op) == IF op = "approve" THEN "Pago Aprobado" ELSE "Pago Rechazado"

\* C20: approve and reject test the status of the stage only on the row they
\* read at the start.  A call that read pending_verification goes on whatever
\* the other calls write meanwhile: its update sets the stage to its own
\* status even when the stage is no longer pending_verification, and it then
\* creates its notification for the client and replies success.  So two calls
\* that overlap on one pending_verification stage both write, both notify and
\* both succeed.
C20_OverlappingReviewsBothTakeEffect ==
    /\ [](\A c \in CallIds :
             calls[c].pc \in {"lookup", "write", "notify"}
                => /\ calls[c].row # None
                   /\ calls[c].row[1].status = "pending_verification")
    /\ [][\A c \in CallIds :
             /\ (calls[c].pc = "write" /\ calls'[c].pc = "notify")
                   => stages'[calls[c].id].status = ReviewedStatus(calls[c].op)
             /\ (calls[c].pc = "notify" /\ calls'[c].pc = "done")
                   => /\ calls'[c].res = 200
                      /\ Len(notifications') = Len(notifications) + 1
                      /\ notifications'[Len(notifications')].userId
                            = projects[calls[c].row[1].projectId].clientId
                      /\ notifications'[Len(notifications')].title = ReviewedTitle(calls[c].op)
      ]_vars

\* an approval and a rejection that read the same pending_verification row have
\* both replied success, and the client holds both notifications
C20_Witness ==
    \E a \in CallIds, r \in CallIds :
        /\ calls[a].op = "approve" /\ calls[r].op = "reject"
        /\ calls[a].id = calls[r].id
        /\ calls[a].row # None /\ calls[a].row = calls[r].row
        /\ calls[a].row[1].status = "pending_verification"
        /\ calls[a].pc = "done" /\ calls[a].res = 200
        /\ calls[r].pc = "done" /\ calls[r].res = 200
        /\ \E i \in 1..Len(notifications), j \in 1..Len(notifications) :
              /\ notifications[i].title = "Pago Aprobado"
              /\ notifications[j].title = "Pago Rechazado"
              /\ notifications[i].userId = notifications[j].userId

\* the rows of the timeline of project p that carry the i-th title
TimelineCopies(p, i) ==
    {k \in 1..Len(timeline) : timeline[k].projectId = p /\ timeline[k].title = TimelineTitles[i]}

\* C18: however many create-stages calls are made on a project, overlapping
\* ones included, the project's timeline holds one copy of the six steps: no
\* step is ever stored twice for a project.
C18_TimelineSeededOnce ==
    \A p \in 1..Len(projects), i \in 1..Len(TimelineTitles) :
        Cardinality(TimelineCopies(p, i)) <= 1

\* the faults that strike after the project update of an acceptance
FaultsAfterProjectWrite == {"lookup", "negotiation"}

\* C21: the acceptance writes the project before the negotiation, in two
\* statements.  When an await after the project update throws, the caller
\* gets the error, the project carries the proposed price and in_progress, and
\* the negotiation is as it was; when the project update itself throws
\* nothing is written.
C21_AcceptanceNotAtomic ==
    \A u \in users, n \in NegotiationIds, cp \in CounterPricesTried :
        LET pid == negotiations[n].projectId
        IN /\ \A fault \in FaultsAfterProjectWrite :
                 LET out == RespondBudgetNegotiationFailing(u, n, "accepted", cp, fault)
                 IN /\ out.res.status = 500
                    /\ out.projects[pid].price = negotiations[n].proposedPrice
                    /\ out.projects[pid].status = "in_progress"
                    /\ out.negotiations = negotiations
           /\ LET out == RespondBudgetNegotiationFailing(u, n, "accepted", cp, "project")
              IN /\ out.res.status = 500
                 /\ out.projects = projects
                 /\ out.negotiations = negotiations

\* a stored state of that kind: the negotiation is still pending and its
\* project already has the proposed price, which is not the price it had
C21_Witness ==
    \E n \in NegotiationIds :
        LET project == projects[negotiations[n].projectId]
        IN /\ negotiations[n].status = "pending"
           /\ negotiations[n].proposedPrice # negotiations[n].originalPrice
           /\ project.price = negotiations[n].proposedPrice
           /\ project.status = "in_progress"
           /\ \A m \in NegotiationIds : negotiations[m].status = "pending"

\* the connections that are open
OpenClients == {c \in ClientIds_ws : clients[c].open}

\* the messages of the channel that are auth messages
AuthMessages == {m \in WsMessages : ~Throws(m) /\ IsAuth(m)}

\* C22: an auth message that carries a userId registers the connection for
\* that user and is answered with auth_success; an auth message without a
\* userId registers nothing and is answered with auth_error; and the reply to
\* an auth message is that one message and nothing else.
C22_AuthAnsweredOnce ==
    \A c \in OpenClients, m \in AuthMessages :
        LET out == OnMessage(c, m)
        IN IF m.userId # None
           THEN /\ out.sent = <<Sent("auth_success", m.userId)>>
                /\ m.userId[1] \in DOMAIN out.registry
                /\ out.registry[m.userId[1]] = c
           ELSE /\ out.sent = <<Sent("auth_error", None)>>
                /\ out.registry = registry

\* the messages that parse to an object whose type is not auth
OtherMessages == {m \in WsMessages : ~Throws(m) /\ ~IsAuth(m)}

\* C23: a message that parses and whose type is not auth is answered on an
\* open connection with one message, of type echo, whose data is the message
\* received; the userId of the connection and the registry stay as they were.
C23_OtherMessagesEchoed ==
    \A c \in OpenClients, m \in OtherMessages :
        LET out == OnMessage(c, m)
        IN /\ out.sent = <<Sent("echo", Some(m))>>
           /\ out.userId = clients[c].userId
           /\ out.registry = registry

\* a connection registered for user 3 has just been sent the echo of a chat message
C23_Witness ==
    \E c \in OpenClients, m \in OtherMessages :
        /\ clients[c].sent = <<Sent("echo", Some(m))>>
        /\ clients[c].userId = Some(3)
        /\ 3 \in DOMAIN registry
        /\ registry[3] = c

\* C24: at a heartbeat tick every open connection is visited.  One whose last
\* ping is still unanswered is terminated at that tick; any other is pinged and
\* stays open, so a connection that answers every ping before the next tick
\* is never terminated by the heartbeat.  The isAlive flag is false exactly
\* while a ping is unanswered.
C24_HeartbeatTerminatesSilentConnections ==
    \A c \in OpenClients :
        LET after == Heartbeat(clients)[c]
        IN /\ clients[c].isAlive <=> ~clients[c].pinged
           /\ clients[c].pinged => ~after.open
           /\ ~clients[c].pinged
                 => /\ after.open
                    /\ after.pinged
                    /\ after.sent = <<Sent("ping", None)>>

\* one connection has left its ping unanswered and the tick terminates it,
\* another has answered and the tick pings it again
C24_Witness ==
    \E c \in OpenClients, d \in OpenClients :
        /\ c # d
        /\ clients[c].pinged /\ ~Heartbeat(clients)[c].open
        /\ ~clients[d].pinged /\ clients[d].userId # None
        /\ Heartbeat(clients)[d].open

\* C25: a stage whose status is paid has paidAt, approvedBy and approvedAt
\* recorded, as the approval of a submitted proof leaves them.
C25_PaidOnlyThroughApprove ==
    \A s \in StageIds :
        stages[s].status = "paid"
           => /\ stages[s].paidAt # None
              /\ stages[s].approvedBy # None
              /\ stages[s].approvedAt # None

\* C26: every negotiation whose status is countered has a successor, a later
\* negotiation of the same project whose originalPrice is its proposedPrice.
C26_CounteredHasSuccessor ==
    \A n \in NegotiationIds :
        negotiations[n].status = "countered"
           => \E m \in NegotiationIds :
                 /\ m > n
                 /\ negotiations[m].projectId = negotiations[n].projectId
                 /\ negotiations[m].originalPrice = negotiations[n].proposedPrice

\* C27: a response rejected or countered leaves every project as it was; a
\* response rejected or accepted adds no negotiation row; and of the rows there
\* were only the answered one changes, in its status only.
C27_ResponseFrame ==
    \A u \in users, n \in NegotiationIds, st \in ResponseStatuses, cp \in CounterPricesTried :
        LET out == RespondBudgetNegotiationHandler(u, n, st, cp)
        IN /\ st \in {"rejected", "countered"} => out.projects = projects
           /\ st \in {"rejected", "accepted"} => Len(out.negotiations) = Len(negotiations)
           /\ SubSeq(out.negotiations, 1, Len(negotiations))
                 = [negotiations EXCEPT ![n] = [@ EXCEPT !.status = st]]

\* a negotiation has been rejected: its project has the price and the status
\* it had and no row was added; countering it now with a price would add one
\* row and leave the project alone
C27_Witness ==
    \E n \in NegotiationIds :
        LET pid == negotiations[n].projectId
            out == RespondBudgetNegotiationHandler(1, n, "countered", Some(1100))
        IN /\ negotiations[n].status = "rejected"
           /\ Len(negotiations) = 1
           /\ projects[pid].price = negotiations[n].originalPrice
           /\ projects[pid].status = "pending"
           /\ 1 \in users
           /\ Len(out.negotiations) = 2
           /\ out.projects = projects

\* C28: in a submit proof whose stage was written and whose notifications were
\* created, the confirmation email to the client is attempted whether the
\* email to the admin was sent or threw.
C28_ClientEmailAttempted ==
    \A u \in users, s \in StageIds, method \in PaymentMethods, up \in Uploads :
        \A fault \in {"none", "admin_email"} :
            LET out == ConfirmPaymentHandler(u, s, method, up, fault)
            IN out.res.status = 200
                  => \E i \in 1..Len(out.mail) :
                        /\ out.mail[i].kind = "proof_confirmation"
                        /\ out.mail[i].to = projects[stages[s].projectId].clientId

\* C29: at most one row of the company billing data is active.
C29_OneActiveCompany ==
    Cardinality({i \in 1..Len(companyBillingInfo) : companyBillingInfo[i].isActive}) <= 1

\* the completed transactions of an invoice
Completed(i) ==
    {t \in 1..Len(transactions) :
        transactions[t].invoiceId = i /\ transactions[t].status = "completed"}

\* C30: a pay request of a user who is not the invoice's client is answered
\* 404 and creates no transaction, and every invoice has at most one
\* completed transaction.
C30_InvoicePaidOnceByOwner ==
    /\ \A u \in users, i \in 1..Len(invoices), pm \in PaymentMethodIdsTried :
          LET out == PayInvoiceHandler(u, i, pm)
          IN (pm # 0 /\ invoices[i].clientId # u)
                => /\ out.res.status = 404
                   /\ out.transactions = transactions
    /\ \A i \in 1..Len(invoices) : Cardinality(Completed(i)) <= 1

====
